---- MODULE Spec2Model ----
(***************************************************************************)
(* Model of the llm-reviewer VS Code extension (src/src/extension.ts and   *)
(* src/src/llm-client.ts): the review-text parser, the per-document result *)
(* store (ReviewTreeDataProvider) and the review orchestration (activate,  *)
(* lintIfNeeded, lintDocument).                                            *)
(*                                                                         *)
(* Text representation.  A review text is a sequence of lines (the result  *)
(* of split('\n') followed by trim()).  A line is a record                 *)
(*   [kind, bullet, head, colon, msg, ln, col]                             *)
(* standing for the characters                                             *)
(*   kind "tag":   <bullet "- ">? "[" head "]" <":">? " " msg              *)
(*                 <" [Ln " ln <", Col " col>? "]">?                       *)
(*   kind "prose": <bullet "- ">? msg        (no leading "[...]" token)    *)
(*   kind "label": "L10:" / "Line 10" / ...  (a bare line-number label)    *)
(*   kind "thinkOpen" / "thinkClose": the line "<think>" / "</think>"      *)
(*   kind "blank": the empty line                                          *)
(* msg is a sequence of words; ln and col are naturals or undefined.       *)
(***************************************************************************)
EXTENDS Integers, Sequences, FiniteSets, TLC

\* The value of an optional number that is absent (lineNumber?: number).
undefined == -1

\* enum Severity
Severity == [Error |-> "error", Warning |-> "warning", Info |-> "info", Hint |-> "hint"]

\* String.prototype.toUpperCase on the severity tokens the inputs use.
toUpperCase(s) ==
    CASE s \in {"ERROR", "error", "Error"} -> "ERROR"
      [] s \in {"WARNING", "warning", "Warning"} -> "WARNING"
      [] s \in {"INFO", "info", "Info"} -> "INFO"
      [] s \in {"HINT", "hint", "Hint"} -> "HINT"
      [] OTHER -> s

\* The alternation (ERROR|WARNING|INFO|HINT) of the line pattern, under /i.
SeverityTokens == {"ERROR", "WARNING", "INFO", "HINT"}

\* Substrings whose presence makes the line filter drop a line ("fence" is the
\* code-fence delimiter of three backquotes).
MarkupMarkers == {"---", "===", "###", "fence"}

\* Prefixes of preamble lines the filter drops ("ika-ni", "rebyu-kekka",
\* "kodo-rebyu", "shiteki-jikou" stand for the Japanese prefixes of the source).
BoilerplatePrefixes ==
    {"Here are", "ika-ni", "rebyu-kekka", "kodo-rebyu", "shiteki-jikou", "think ", "#"}

TagLine(bullet, head, colon, msg, ln, col) ==
    [kind |-> "tag", bullet |-> bullet, head |-> head, colon |-> colon,
     msg |-> msg, ln |-> ln, col |-> col]

ProseLine(bullet, msg) ==
    [kind |-> "prose", bullet |-> bullet, head |-> "", colon |-> FALSE,
     msg |-> msg, ln |-> undefined, col |-> undefined]

MarkLine(kind) ==
    [kind |-> kind, bullet |-> FALSE, head |-> "", colon |-> FALSE,
     msg |-> <<>>, ln |-> undefined, col |-> undefined]

BlankLine == MarkLine("blank")

\* The text the client returns when there is nothing to report.
NoResultText == << ProseLine(FALSE, <<"rebyu-kekka-ga-arimasen">>) >>

----------------------------------------------------------------------------
\* _parseReviewItems, step by step.

\* Index of the first line of the given kind at or after position from, 0 if none.
RECURSIVE IndexOfKind(_, _, _)
IndexOfKind(text, kind, from) ==
    IF from > Len(text) THEN 0
    ELSE IF text[from].kind = kind THEN from
    ELSE IndexOfKind(text, kind, from + 1)

\* filteredText.replace(/<think>[\s\S]*?<\/think>/g, ''): every segment from a
\* "<think>" to the next "</think>" is removed; what is left of the two marker
\* lines joins into one empty line.
RECURSIVE stripThink(_)
stripThink(text) ==
    LET open == IndexOfKind(text, "thinkOpen", 1)
        close == IF open = 0 THEN 0 ELSE IndexOfKind(text, "thinkClose", open + 1)
    IN  IF open = 0 \/ close = 0 THEN text
        ELSE SubSeq(text, 1, open - 1) \o << BlankLine >>
             \o stripThink(SubSeq(text, close + 1, Len(text)))

\* line.includes(m) for one of the markup markers.
includesMarkup(line) == \E i \in 1..Len(line.msg) : line.msg[i] \in MarkupMarkers

\* line.startsWith(p) for one of the preamble prefixes: only a line that starts
\* with its own text (no bullet, no "[...]" token) can start with one.
startsWithBoilerplate(line) ==
    /\ line.kind = "prose"
    /\ ~line.bullet
    /\ Len(line.msg) > 0
    /\ line.msg[1] \in BoilerplatePrefixes

\* The predicate of .filter(...) in _parseReviewItems.
keepLine(line) ==
    /\ line.kind # "blank"
    /\ line.kind # "thinkOpen"
    /\ ~startsWithBoilerplate(line)
    /\ ~includesMarkup(line)
    /\ line.kind # "label"

\* line.replace(<one leading bullet character and the blanks after it>, '').trim()
stripBullet(line) == [line EXCEPT !.bullet = FALSE]

\* .filter(keepLine) over the lines.
RECURSIVE filterLines(_)
filterLines(text) ==
    IF text = <<>> THEN <<>>
    ELSE (IF keepLine(Head(text)) THEN << Head(text) >> ELSE <<>>)
         \o filterLines(Tail(text))

\* The lines array of _parseReviewItems.
parserLines(text) ==
    LET kept == filterLines(stripThink(text))
    IN  [i \in 1..Len(kept) |-> stripBullet(kept[i])]

\* Whether the line pattern
\*   /^\[(ERROR|WARNING|INFO|HINT)\]\s*:?\s*(.+?)(?:\s+\[Ln\s+(\d+)(?:,\s*Col\s+(\d+))?\])?$/i
\* matches: the line starts with a bracketed severity token and at least one
\* character follows it.
severityMatches(line) ==
    /\ line.kind = "tag"
    /\ ~line.bullet
    /\ toUpperCase(line.head) \in SeverityTokens
    /\ (line.msg # <<>> \/ line.colon \/ line.ln # undefined)

\* The capture groups of a match: 1 the token, 2 the content, 3 and 4 the
\* numbers.  With nothing between the token and the end but ":", or but the
\* position suffix, group 2 takes that text and groups 3 and 4 stay unset.
severityMatch(line) ==
    IF line.msg # <<>>
    THEN [token |-> line.head, content |-> line.msg, ln |-> line.ln,
          col |-> IF line.ln = undefined THEN undefined ELSE line.col]
    ELSE IF line.ln # undefined
    THEN [token |-> line.head, content |-> << "[Ln]" >>, ln |-> undefined, col |-> undefined]
    ELSE [token |-> line.head, content |-> << ":" >>, ln |-> undefined, col |-> undefined]

\* The if/else chain that maps the upper-cased token to the enum.
severityOf(severityText) ==
    IF severityText = "ERROR" THEN Severity.Error
    ELSE IF severityText = "WARNING" THEN Severity.Warning
    ELSE IF severityText = "INFO" THEN Severity.Info
    ELSE IF severityText = "HINT" THEN Severity.Hint
    ELSE Severity.Info

\* The switch that builds the label prefix.
severityPrefix(severity) ==
    CASE severity = Severity.Error -> "[error-ja] "
      [] severity = Severity.Warning -> "[warning-ja] "
      [] severity = Severity.Info -> "[info-ja] "
      [] severity = Severity.Hint -> "[hint-ja] "
      [] OTHER -> ""

\* JavaScript truthiness of an optional number: undefined and 0 are falsy.
truthy(n) == n # undefined /\ n # 0

\* displayText: the prefix, the content and, when lineNumber is truthy, the
\* line and (when truthy) the column shown after it.
displayText(severity, content, lineNumber, colNumber) ==
    [prefix |-> severityPrefix(severity),
     content |-> content,
     line |-> IF truthy(lineNumber) THEN lineNumber ELSE undefined,
     col |-> IF truthy(lineNumber) /\ truthy(colNumber) THEN colNumber ELSE undefined]

\* new ReviewItem(displayText, None, [], undefined, resourceUri, severity,
\* lineNumber, colNumber)
\* The item has no command.
NoCommand == [set |-> FALSE]

\* The constructor with a jump to the line number as written.
ReviewItemJumpingToLineNumber(label, resourceUri, severity, lineNumber, colNumber) ==
    [label |-> label, resourceUri |-> resourceUri, severity |-> severity,
     lineNumber |-> lineNumber, colNumber |-> colNumber,
     command |-> IF lineNumber # undefined
                 THEN [set |-> TRUE, line |-> lineNumber,
                       character |-> IF colNumber # undefined THEN colNumber ELSE 0,
                       endCharacter |-> IF colNumber # undefined THEN colNumber + 1 ELSE 1]
                 ELSE NoCommand]

\* The command is vscode.open with the selection
\* Range(line, character, line, endCharacter); resourceUri is always given.
ReviewItem(label, resourceUri, severity, lineNumber, colNumber) ==
    [label |-> label, resourceUri |-> resourceUri, severity |-> severity,
     lineNumber |-> lineNumber, colNumber |-> colNumber,
     command |-> IF lineNumber # undefined
                 THEN [set |-> TRUE,
                       line |-> IF lineNumber > 0 THEN lineNumber - 1 ELSE 0,
                       character |-> IF colNumber # undefined THEN colNumber ELSE 0,
                       endCharacter |-> IF colNumber # undefined THEN colNumber + 1 ELSE 1]
                 ELSE NoCommand]

\* `${severity}-${content}-${lineNumber || 0}-${colNumber || 0}`.  The
\* severity holds no "-" and the two last fields are digits only, so the
\* string decodes uniquely from its ends: it is the tuple of its four parts.
reviewKey(severity, content, lineNumber, colNumber) ==
    << severity, content,
       IF truthy(lineNumber) THEN lineNumber ELSE 0,
       IF truthy(colNumber) THEN colNumber ELSE 0 >>

\* The item and the key the loop body builds for one matching line.
lineEntry(line, resourceUri) ==
    LET m == severityMatch(line)
        severity == severityOf(toUpperCase(m.token))
    IN  [item |-> ReviewItem(displayText(severity, m.content, m.ln, m.col),
                             resourceUri, severity, m.ln, m.col),
         key |-> reviewKey(severity, m.content, m.ln, m.col)]

\* pushIfNew without the uniqueReviews test: every matching line is pushed.
pushAlways(acc, entry) ==
    [uniqueReviews |-> acc.uniqueReviews \cup {entry.key},
     reviewItems |-> Append(acc.reviewItems, entry.item)]

\* if (!uniqueReviews.has(reviewKey)) { uniqueReviews.add(reviewKey); push }
pushIfNew(acc, entry) ==
    IF entry.key \in acc.uniqueReviews THEN acc
    ELSE [uniqueReviews |-> acc.uniqueReviews \cup {entry.key},
          reviewItems |-> Append(acc.reviewItems, entry.item)]

\* The for loop over lines: the state (uniqueReviews, reviewItems) after it.
RECURSIVE collectItems(_, _, _)
collectItems(lines, resourceUri, acc) ==
    IF lines = <<>> THEN acc
    ELSE collectItems(Tail(lines), resourceUri,
                      IF severityMatches(Head(lines))
                      THEN pushIfNew(acc, lineEntry(Head(lines), resourceUri))
                      ELSE acc)

\* The comparator handed to reviewItems.sort.
compareItems(a, b) ==
    IF a.lineNumber = undefined /\ b.lineNumber = undefined THEN 0
    ELSE IF a.lineNumber = undefined THEN 1
    ELSE IF b.lineNumber = undefined THEN -1
    ELSE a.lineNumber - b.lineNumber

\* insertSorted of an unstable sort: x goes before the elements it ties with.
RECURSIVE insertBeforeTies(_, _)
insertBeforeTies(sorted, x) ==
    IF sorted = <<>> THEN << x >>
    ELSE IF compareItems(x, Head(sorted)) <= 0 THEN << x >> \o sorted
    ELSE << Head(sorted) >> \o insertBeforeTies(Tail(sorted), x)

\* Array.prototype.sort is stable (ECMAScript 2019, the engine of VS Code
\* 1.90): x goes before the first element it compares strictly less than.
RECURSIVE insertSorted(_, _)
insertSorted(sorted, x) ==
    IF sorted = <<>> THEN << x >>
    ELSE IF compareItems(x, Head(sorted)) < 0 THEN << x >> \o sorted
    ELSE << Head(sorted) >> \o insertSorted(Tail(sorted), x)

RECURSIVE sortItems(_)
sortItems(items) ==
    IF items = <<>> THEN <<>>
    ELSE insertSorted(sortItems(SubSeq(items, 1, Len(items) - 1)), items[Len(items)])

\* _parseReviewItems without the final sort.
parseReviewItemsUnsorted(text, fileUri) ==
    collectItems(parserLines(text), fileUri,
                 [uniqueReviews |-> {}, reviewItems |-> <<>>]).reviewItems

_parseReviewItems(text, fileUri) ==
    sortItems(collectItems(parserLines(text), fileUri,
                           [uniqueReviews |-> {}, reviewItems |-> <<>>]).reviewItems)

----------------------------------------------------------------------------
\* Documents (vscode.TextDocument).  A document text is a sequence of
\* characters; "\n" ends a line.

\* The documents of the workspace: two source files and a Markdown file.
Docs == {"a", "b"}
AllDocs == Docs \cup {"notes"}

\* doc.isUntitled
isUntitled(doc) == FALSE

\* doc.languageId
languageId(doc) ==
    CASE doc = "a" -> "typescript"
      [] doc = "b" -> "python"
      [] OTHER -> "markdown"

isProgrammingLanguage(id) ==
    id \in {"javascript", "typescript", "python", "java", "c", "cpp", "csharp", "ruby",
            "go", "php", "swift", "kotlin", "rust", "scala", "perl", "dart", "haskell",
            "elixir", "clojure", "shellscript", "bash", "powershell", "objective-c",
            "groovy", "lua", "coffeescript", "jsonc", "vue", "jsx", "tsx"}

\* shouldExclude(doc.uri.fsPath): no document of the workspace lies under an
\* excluded folder, and no include pattern is configured.
shouldExclude(doc) == FALSE

\* doc.getText()
getText(doc) ==
    IF doc = "a"
    THEN << "l", "e", "t", " ", "x", "\n", "f", "o", "o", "(", ")" >>
    ELSE << "f", "o", "o", "(", ")", "\n", "\n", "l", "e", "t", " ", " ", "y" >>

\* Number of "\n" among the first n characters of text.
RECURSIVE newlinesBefore(_, _)
newlinesBefore(text, n) ==
    IF n = 0 THEN 0
    ELSE newlinesBefore(text, n - 1) + (IF text[n] = "\n" THEN 1 ELSE 0)

\* Length of the run of characters other than "\n" that ends just before
\* position n + 1 (the column of offset n).
RECURSIVE columnOf(_, _)
columnOf(text, n) ==
    IF n = 0 \/ text[n] = "\n" THEN 0 ELSE columnOf(text, n - 1) + 1

\* doc.positionAt(offset), offset counted from 0.
positionAt(doc, offset) ==
    [line |-> newlinesBefore(getText(doc), offset),
     character |-> columnOf(getText(doc), offset)]

\* doc.lineCount
lineCount(doc) == newlinesBefore(getText(doc), Len(getText(doc))) + 1

\* Length of the run of characters other than "\n" that starts at position from.
RECURSIVE runLength(_, _)
runLength(text, from) ==
    IF from > Len(text) \/ text[from] = "\n" THEN 0 ELSE 1 + runLength(text, from + 1)

\* Position (from 1) of the first character of line n (from 0) of text.
RECURSIVE lineStart(_, _, _)
lineStart(text, n, from) ==
    IF n = 0 THEN from
    ELSE lineStart(text, n - 1, from + runLength(text, from) + 1)

\* doc.lineAt(n).text.length
lineLength(doc, n) == runLength(getText(doc), lineStart(getText(doc), n, 1))

----------------------------------------------------------------------------
\* llm-client.ts: findPositionByCodeSnippet and formatFunctionCallResults.

\* Snippets longer than this get the word-anchor pass.
FuzzyMinLength == 15
\* Words this short or shorter are no anchors.
ShortWordLength == 3
\* At most this many anchor words are used.
MaxAnchorWords == 3
\* Characters of context taken on each side of an anchor.
ContextRadius == 50
\* Anchor words a context must hold.
MinAnchorHits == 2

\* \s of the regular expression engine, on the characters the inputs use.
isSpace(c) == c \in {" ", "\n", "\t"}

RECURSIVE trimStart(_)
trimStart(str) ==
    IF str # <<>> /\ isSpace(Head(str)) THEN trimStart(Tail(str)) ELSE str

RECURSIVE trimEnd(_)
trimEnd(str) ==
    IF str # <<>> /\ isSpace(str[Len(str)])
    THEN trimEnd(SubSeq(str, 1, Len(str) - 1))
    ELSE str

\* String.prototype.trim
trim(str) == trimEnd(trimStart(str))

\* matchesAt of a pattern whose blanks stand for themselves.
RECURSIVE matchesAtLiterally(_, _, _)
matchesAtLiterally(pat, text, pos) ==
    IF pat = <<>> THEN TRUE
    ELSE /\ pos <= Len(text)
         /\ text[pos] = Head(pat)
         /\ matchesAtLiterally(Tail(pat), text, pos + 1)

\* Whether the pattern built from the snippet (every character escaped to a
\* literal, every run of blanks turned into \s+) matches text from position
\* pos (from 1) on.  pat is the trimmed snippet still to match.
RECURSIVE matchesAt(_, _, _)
matchesAt(pat, text, pos) ==
    IF pat = <<>> THEN TRUE
    ELSE IF isSpace(Head(pat))
    THEN /\ pos <= Len(text)
         /\ isSpace(text[pos])
         /\ matchesAt(trimStart(pat),
                      text,
                      pos + Len(SubSeq(text, pos, Len(text)))
                          - Len(trimStart(SubSeq(text, pos, Len(text)))))
    ELSE /\ pos <= Len(text)
         /\ text[pos] = Head(pat)
         /\ matchesAt(Tail(pat), text, pos + 1)

\* regex.exec(docText): match.index of the first match (from 0), or -1.
RECURSIVE execIndex(_, _, _)
execIndex(pat, text, pos) ==
    IF pos > Len(text) + 1 THEN -1
    ELSE IF matchesAt(pat, text, pos) THEN pos - 1
    ELSE execIndex(pat, text, pos + 1)

\* docText.indexOf(word) (from 0), or -1: the literal pattern, no blank runs.
RECURSIVE startsWithAt(_, _, _)
startsWithAt(word, text, pos) ==
    IF word = <<>> THEN TRUE
    ELSE /\ pos <= Len(text)
         /\ text[pos] = Head(word)
         /\ startsWithAt(Tail(word), text, pos + 1)

RECURSIVE indexOf(_, _, _)
indexOf(text, word, pos) ==
    IF pos > Len(text) + 1 THEN -1
    ELSE IF startsWithAt(word, text, pos) THEN pos - 1
    ELSE indexOf(text, word, pos + 1)

\* snippet.split(/\s+/): the maximal runs between blank runs (an empty string
\* stands at an end where the snippet starts or ends with a blank).
RECURSIVE splitWords(_, _)
splitWords(str, word) ==
    IF str = <<>> THEN << word >>
    ELSE IF isSpace(Head(str)) THEN << word >> \o splitWords(trimStart(str), <<>>)
    ELSE splitWords(Tail(str), Append(word, Head(str)))

RECURSIVE longWords(_)
longWords(words) ==
    IF words = <<>> THEN <<>>
    ELSE (IF Len(Head(words)) > ShortWordLength THEN << Head(words) >> ELSE <<>>)
         \o longWords(Tail(words))

\* .split(/\s+/).filter((word) => word.length > 3).slice(0, 3)
anchorWords(snippet) ==
    LET long == longWords(splitWords(snippet, <<>>))
    IN  SubSeq(long, 1, IF Len(long) < MaxAnchorWords THEN Len(long) ELSE MaxAnchorWords)

Max(a, b) == IF a > b THEN a ELSE b
Min(a, b) == IF a < b THEN a ELSE b

\* The word-anchor loop: the index (from 0) of the first anchor word, in word
\* order, whose context holds at least two anchor words, or -1.
RECURSIVE anchorIndex(_, _, _)
anchorIndex(words, docText, k) ==
    IF k > Len(words) THEN -1
    ELSE LET index == indexOf(docText, words[k], 1)
             contextStart == Max(0, index - ContextRadius)
             contextEnd == Min(Len(docText), index + ContextRadius)
             context == SubSeq(docText, contextStart + 1, contextEnd)
             hits == Cardinality({i \in 1..Len(words) : indexOf(context, words[i], 1) >= 0})
         IN  IF index >= 0 /\ hits >= MinAnchorHits THEN index
             ELSE anchorIndex(words, docText, k + 1)

\* The result of findPositionByCodeSnippet: found = FALSE stands for null.
\* An absent snippet is the empty sequence (undefined and '' are both falsy).
NoPosition == [found |-> FALSE, line |-> 0, character |-> 0]
FoundPosition(doc, offset) ==
    [found |-> TRUE, line |-> positionAt(doc, offset).line,
     character |-> positionAt(doc, offset).character]

findPositionByCodeSnippet(snippet, doc) ==
    IF snippet = <<>> THEN NoPosition
    ELSE LET exact == execIndex(trim(snippet), getText(doc), 1)
             fuzzy == anchorIndex(anchorWords(snippet), getText(doc), 1)
         IN  IF exact >= 0 THEN FoundPosition(doc, exact)
             ELSE IF Len(snippet) > FuzzyMinLength /\ fuzzy >= 0
             THEN FoundPosition(doc, fuzzy)
             ELSE NoPosition

\* One element of formattedLines:
\*   `[${review.severity}]${review.message}${locationText}`
\* A missing severity prints as "undefined".
formatReview(review, doc) ==
    LET position == findPositionByCodeSnippet(review.codeSnippet, doc)
    IN  TagLine(FALSE, review.severity, FALSE, review.message,
                IF position.found THEN position.line + 1 ELSE undefined,
                IF position.found THEN position.character ELSE undefined)

\* formatFunctionCallResults: result.reviews is a sequence, or isArray = FALSE
\* when it is missing or no array.  The join of no lines is the empty string,
\* one empty line.
formatFunctionCallResults(result, doc) ==
    IF ~result.isArray THEN NoResultText
    ELSE IF result.reviews = <<>> THEN << BlankLine >>
    ELSE [i \in 1..Len(result.reviews) |-> formatReview(result.reviews[i], doc)]

\* requestLLMReviewWithFunctionCalling, from the response on.  A response is
\*   [kind |-> "networkError"]   fetch rejects
\*   [kind |-> "httpError"]      res.ok is false
\*   [kind |-> "noToolCall"]     no tool call named reviewCode
\*   [kind |-> "badArguments"]   JSON.parse of the arguments throws
\*   [kind |-> "reviewCode", result |-> ...]
\* Every throw is caught inside the function, which then returns NoResultText.
requestLLMReviewWithFunctionCalling(doc, response) ==
    IF response.kind = "reviewCode"
    THEN formatFunctionCallResults(response.result, doc)
    ELSE NoResultText

----------------------------------------------------------------------------
\* updateDiagnostics: the array handed to diagnosticCollection.set.

\* .filter((line) => line.length > 0)
RECURSIVE nonEmptyLines(_)
nonEmptyLines(text) ==
    IF text = <<>> THEN <<>>
    ELSE (IF Head(text).kind # "blank" THEN << Head(text) >> ELSE <<>>)
         \o nonEmptyLines(Tail(text))

\* The switch from the upper-cased token to vscode.DiagnosticSeverity.
diagnosticSeverityOf(severityText) ==
    CASE severityText = "ERROR" -> "Error"
      [] severityText = "WARNING" -> "Warning"
      [] severityText = "INFO" -> "Information"
      [] severityText = "HINT" -> "Hint"
      [] OTHER -> "Information"

\* The diagnostic the loop body builds for one matching line.
lineDiagnostic(doc, line) ==
    LET m == severityMatch(line)
        lineNumber == IF m.ln # undefined THEN m.ln - 1 ELSE 0
        colNumber == IF m.col # undefined THEN m.col ELSE 0
        safeLineNumber == Max(0, Min(lineNumber, lineCount(doc) - 1))
        length == lineLength(doc, safeLineNumber)
    IN  [line |-> safeLineNumber,
         startCharacter |-> Min(colNumber, length),
         endCharacter |-> length,
         message |-> m.content,
         severity |-> diagnosticSeverityOf(toUpperCase(m.token)),
         source |-> "LLM Reviewer"]

\* collectDiagnostics passing over the lines that name no line number.
RECURSIVE collectDiagnosticsOfPositioned(_, _)
collectDiagnosticsOfPositioned(doc, lines) ==
    IF lines = <<>> THEN <<>>
    ELSE (IF severityMatches(Head(lines)) /\ severityMatch(Head(lines)).ln # undefined
          THEN << lineDiagnostic(doc, Head(lines)) >> ELSE <<>>)
         \o collectDiagnosticsOfPositioned(doc, Tail(lines))

RECURSIVE collectDiagnostics(_, _)
collectDiagnostics(doc, lines) ==
    IF lines = <<>> THEN <<>>
    ELSE (IF severityMatches(Head(lines))
          THEN << lineDiagnostic(doc, Head(lines)) >> ELSE <<>>)
         \o collectDiagnostics(doc, Tail(lines))

updateDiagnostics(doc, reviewText) == collectDiagnostics(doc, nonEmptyLines(reviewText))

----------------------------------------------------------------------------
\* ReviewTreeDataProvider.  _reviewItemsByFile is a Map: a sequence of
\* [uri, items] entries in insertion order, one entry per key.

RECURSIVE mapIndex(_, _, _)
mapIndex(map, key, from) ==
    IF from > Len(map) THEN 0
    ELSE IF map[from].uri = key THEN from
    ELSE mapIndex(map, key, from + 1)

\* Map.prototype.has
mapHas(map, key) == mapIndex(map, key, 1) # 0

\* Map.prototype.set: a present key keeps its place, a new key goes last.
mapSet(map, key, items) ==
    IF mapHas(map, key)
    THEN [map EXCEPT ![mapIndex(map, key, 1)] = [uri |-> key, items |-> items]]
    ELSE Append(map, [uri |-> key, items |-> items])

\* Map.prototype.delete
mapDelete(map, key) ==
    LET i == mapIndex(map, key, 1)
    IN  IF i = 0 THEN map ELSE SubSeq(map, 1, i - 1) \o SubSeq(map, i + 1, Len(map))

\* The loop "for (const items of this._reviewItemsByFile.values())
\* totalReviewCount += items.length".
RECURSIVE totalReviewCount(_)
totalReviewCount(map) ==
    IF map = <<>> THEN 0 ELSE Len(Head(map).items) + totalReviewCount(Tail(map))

\* getChildren() at the root: one file node per entry that holds items, in
\* Map order, with the entry's items as its children.
RECURSIVE getChildren(_)
getChildren(map) ==
    IF map = <<>> THEN <<>>
    ELSE (IF Len(Head(map).items) > 0
          THEN << [resourceUri |-> Head(map).uri, children |-> Head(map).items] >>
          ELSE <<>>)
         \o getChildren(Tail(map))

\* What the tree shows for one document: the children of its file node.
childrenOf(map, uriString) ==
    LET nodes == getChildren(map)
        hit == {i \in 1..Len(nodes) : nodes[i].resourceUri = uriString}
    IN  IF hit = {} THEN <<>> ELSE nodes[CHOOSE i \in hit : TRUE].children

\* this._onDidChangeTreeData.fire(): the listeners run at once and read the
\* provider as it is at the call.  fired counts the calls, seen is what the
\* last call showed: the root nodes and the badge.
fire(provider) ==
    [provider EXCEPT !.fired = @ + 1,
                     !.seen = [nodes |-> getChildren(provider.reviewItemsByFile),
                               badge |-> provider.badge]]

\* The badge assignment: guarded by this._treeView, unset for a total of 0.
setBadge(provider, total) ==
    IF provider.treeView
    THEN [provider EXCEPT !.badge = IF total > 0 THEN total ELSE undefined]
    ELSE provider

\* updateBadge()
updateBadge(provider) == setBadge(provider, totalReviewCount(provider.reviewItemsByFile))

\* update that notifies before it stores the items and sets the badge.
updateFiringFirst(provider, uriString, text) ==
    LET items == _parseReviewItems(text, uriString)
        notified == fire(provider)
        stored == [notified EXCEPT
                     !.reviewItemsByFile = mapSet(provider.reviewItemsByFile, uriString, items)]
    IN  setBadge(stored, totalReviewCount(stored.reviewItemsByFile))

\* update that adds the new items to the ones the entry holds.
updateMerging(provider, uriString, text) ==
    LET items == _parseReviewItems(text, uriString)
        old == IF mapHas(provider.reviewItemsByFile, uriString)
               THEN provider.reviewItemsByFile[mapIndex(provider.reviewItemsByFile, uriString, 1)].items
               ELSE <<>>
        stored == [provider EXCEPT
                     !.reviewItemsByFile = mapSet(provider.reviewItemsByFile, uriString, old \o items)]
    IN  fire(setBadge(stored, totalReviewCount(stored.reviewItemsByFile)))

\* update(uriString, text)
update(provider, uriString, text) ==
    LET items == _parseReviewItems(text, uriString)
        stored == [provider EXCEPT
                     !.reviewItemsByFile = mapSet(provider.reviewItemsByFile, uriString, items)]
    IN  fire(setBadge(stored, totalReviewCount(stored.reviewItemsByFile)))

\* clearReviews without the call of updateBadge.
clearReviewsStaleBadge(provider, uriString) ==
    IF mapHas(provider.reviewItemsByFile, uriString)
    THEN fire([provider EXCEPT
                 !.reviewItemsByFile = mapDelete(provider.reviewItemsByFile, uriString)])
    ELSE provider

\* clearReviews that notifies whether or not the entry was there.
clearReviewsAlwaysFiring(provider, uriString) ==
    fire(updateBadge([provider EXCEPT
                        !.reviewItemsByFile = mapDelete(provider.reviewItemsByFile, uriString)]))

\* clearFileReviews(uriString), the part on the provider.
clearReviews(provider, uriString) ==
    IF mapHas(provider.reviewItemsByFile, uriString)
    THEN fire(updateBadge([provider EXCEPT
                             !.reviewItemsByFile = mapDelete(provider.reviewItemsByFile, uriString)]))
    ELSE provider

\* diagnosticCollection: per document, whether an array is set and the array.
NoDiagnostics == [set |-> FALSE, items |-> <<>>]

\* clearFileReviews(uriString), the part on the diagnostics: deleted only when
\* the document is among vscode.workspace.textDocuments.
clearDiagnostics(diagnostics, uriString, textDocuments) ==
    IF uriString \in textDocuments
    THEN [diagnostics EXCEPT ![uriString] = NoDiagnostics]
    ELSE diagnostics

\* clearFileReviews(uriString) on the pair (provider, diagnostics).
clearFileReviews(st, uriString, textDocuments) ==
    [provider |-> clearReviews(st.provider, uriString),
     diagnostics |-> clearDiagnostics(st.diagnostics, uriString, textDocuments)]

\* new ReviewTreeDataProvider() followed by setTreeView(treeView) in activate.
NewProvider ==
    [reviewItemsByFile |-> <<>>, treeView |-> TRUE, badge |-> undefined,
     fired |-> 0, seen |-> [nodes |-> <<>>, badge |-> undefined]]

----------------------------------------------------------------------------
\* State.

VARIABLES
    reviewTreeProvider,      \* the ReviewTreeDataProvider object (and its listeners' view)
    diagnosticCollection,    \* document -> the diagnostics set for it
    lastRunMap,              \* document -> time of the last accepted trigger
    queue,                   \* the PQueue: reviews waiting for the single slot
    inflight,                \* the lintDocument executions awaiting the model
    now,                     \* Date.now()
    textDocuments,           \* the documents open in an editor
    activeTextEditor,        \* the document of the active editor, or NoDoc
    autoReviewEnabled,       \* review on save
    autoReviewOnOpenEnabled, \* review on editor change
    startupTimer,            \* the document of the pending setTimeout, or NoDoc
    parsing,                 \* a model response on its way to the store
    requestLog,              \* document -> when its last review was requested,
                             \*   and how: by a trigger ("queue") or the command
    ev                       \* the call or event that made the last step

vars ==
    << reviewTreeProvider, diagnosticCollection, lastRunMap, queue, inflight, now,
       textDocuments, activeTextEditor, autoReviewEnabled, autoReviewOnOpenEnabled,
       startupTimer, parsing, requestLog, ev >>

editorVars == << textDocuments, activeTextEditor, autoReviewEnabled, autoReviewOnOpenEnabled >>
reviewVars == << lastRunMap, queue, inflight, startupTimer, requestLog >>

NoDoc == "none"

\* The clock when the extension is activated, far more than a cooldown after 0.
StartTime == 100000

NoEvent == [op |-> "none"]
NotParsing == [stage |-> "idle"]

\* The state activate() leaves: the provider wired to its tree view, nothing
\* reviewed, nothing queued.
InitExtension ==
    /\ reviewTreeProvider = NewProvider
    /\ diagnosticCollection = [d \in AllDocs |-> NoDiagnostics]
    /\ lastRunMap = [d \in AllDocs |-> undefined]
    /\ requestLog = [d \in AllDocs |-> [at |-> undefined, via |-> "none"]]
    /\ queue = <<>>
    /\ inflight = <<>>
    /\ now = StartTime
    /\ autoReviewEnabled = TRUE
    /\ ev = NoEvent

NoEditor ==
    /\ textDocuments = {}
    /\ activeTextEditor = NoDoc
    /\ autoReviewOnOpenEnabled = TRUE
    /\ startupTimer = NoDoc

----------------------------------------------------------------------------
\* Inputs.

SeqsUpTo(S, n) == UNION {[1..k -> S] : k \in 0..n}

\* Longest review text, in lines, and longest reviews array of a payload.
MaxLines == 3
MaxEntries == 2

Words == [m |-> << "m" >>, n |-> << "n" >>, eq |-> << "a", "===", "b" >>]

\* The lines review texts are made of.
ParseLines ==
    { TagLine(FALSE, "ERROR", FALSE, Words.m, 2, 1),
      TagLine(FALSE, "ERROR", FALSE, Words.m, undefined, undefined),
      TagLine(FALSE, "error", TRUE, Words.m, 0, undefined),
      TagLine(TRUE, "WARNING", FALSE, Words.m, 1, undefined),
      TagLine(FALSE, "WARNING", FALSE, Words.m, 1, 0),
      TagLine(FALSE, "HINT", TRUE, Words.n, 2, undefined),
      TagLine(FALSE, "INFO", FALSE, Words.eq, 1, undefined),
      TagLine(FALSE, "FATAL", FALSE, Words.m, 1, undefined),
      TagLine(FALSE, "ERROR", TRUE, <<>>, undefined, undefined),
      TagLine(FALSE, "ERROR", FALSE, Words.n, 12, 4),
      TagLine(FALSE, "HINT", TRUE, Words.n, undefined, undefined),
      ProseLine(FALSE, << "Here are", "findings" >>),
      MarkLine("thinkOpen"),
      MarkLine("thinkClose") }

Texts == SeqsUpTo(ParseLines, MaxLines)

Snippets ==
    [none |-> <<>>,
     call |-> << "f", "o", "o", "(" >>]

\* The entries of a structured payload.
Reviews ==
    [severity : {"warning", "ERROR", "FATAL"},
     message : {Words.m, Words.n},
     codeSnippet : {Snippets.none, Snippets.call}]

Payloads == [isArray : {TRUE}, reviews : SeqsUpTo(Reviews, MaxEntries)]
                \cup {[isArray |-> FALSE, reviews |-> <<>>]}

----------------------------------------------------------------------------
\* SpecParse: one model response through formatFunctionCallResults, update
\* and, with llmLint.showInProblemsTab, updateDiagnostics, over every text and
\* payload of the bounded input sets.

InitParse ==
    /\ InitExtension
    /\ NoEditor
    /\ \E d \in Docs :
         \/ \E p \in Payloads :
              parsing = [stage |-> "payload", doc |-> d, payload |-> p,
                         structured |-> TRUE, text |-> <<>>]
         \/ \E t \in Texts :
              parsing = [stage |-> "text", doc |-> d,
                         payload |-> [isArray |-> FALSE, reviews |-> <<>>],
                         structured |-> FALSE, text |-> t]

FormatResult ==
    /\ parsing.stage = "payload"
    /\ parsing' = [parsing EXCEPT
                     !.stage = "text",
                     !.text = formatFunctionCallResults(parsing.payload, parsing.doc)]
    /\ UNCHANGED << reviewTreeProvider, diagnosticCollection, editorVars, reviewVars, now, ev >>

ParseText ==
    /\ parsing.stage = "text"
    /\ reviewTreeProvider' = update(reviewTreeProvider, parsing.doc, parsing.text)
    /\ \E showInProblemsTab \in BOOLEAN :
         /\ parsing' = [stage |-> "stored", doc |-> parsing.doc,
                        payload |-> parsing.payload, structured |-> parsing.structured,
                        text |-> parsing.text, show |-> showInProblemsTab]
         /\ diagnosticCollection' =
              IF showInProblemsTab
              THEN [diagnosticCollection EXCEPT
                      ![parsing.doc] =
                         [set |-> TRUE,
                          items |-> updateDiagnostics(parsing.doc, parsing.text)]]
              ELSE diagnosticCollection
    /\ ev' = [op |-> "update", uri |-> parsing.doc, text |-> parsing.text,
              fired0 |-> reviewTreeProvider.fired, again |-> FALSE]
    /\ UNCHANGED << editorVars, reviewVars, now >>

NextParse == FormatResult \/ ParseText

SpecParse == InitParse /\ [][NextParse]_vars

----------------------------------------------------------------------------
\* SpecStore: any sequence of update and clearFileReviews calls on the provider.

\* Notifications a run of SpecStore may fire.
MaxFires == 4

Line ==
    [errorAt2 |-> TagLine(FALSE, "ERROR", FALSE, Words.m, 2, 1),
     warningAt1 |-> TagLine(FALSE, "WARNING", FALSE, Words.m, 1, 0),
     hintAt2 |-> TagLine(TRUE, "hint", TRUE, Words.n, 2, undefined),
     infoNowhere |-> TagLine(FALSE, "INFO", FALSE, Words.n, undefined, undefined)]

StoreTexts ==
    { NoResultText,
      << Line.errorAt2, Line.errorAt2 >>,
      << Line.infoNowhere, Line.errorAt2, Line.warningAt1, Line.errorAt2 >>,
      << Line.hintAt2, Line.errorAt2 >>,
      << Line.warningAt1 >>,
      << MarkLine("thinkOpen"), Line.errorAt2, MarkLine("thinkClose"), Line.infoNowhere >> }

InitStore ==
    /\ InitExtension
    /\ NoEditor
    /\ parsing = NotParsing

StoreUpdate(uriString, text) ==
    /\ reviewTreeProvider.fired < MaxFires
    /\ reviewTreeProvider' = update(reviewTreeProvider, uriString, text)
    /\ ev' = [op |-> "update", uri |-> uriString, text |-> text,
              fired0 |-> reviewTreeProvider.fired,
              again |-> ev.op = "update" /\ ev.uri = uriString /\ ev.text = text]
    /\ UNCHANGED << diagnosticCollection, editorVars, reviewVars, now, parsing >>

StoreClear(uriString) ==
    /\ reviewTreeProvider.fired < MaxFires
    /\ LET st == clearFileReviews([provider |-> reviewTreeProvider,
                                   diagnostics |-> diagnosticCollection],
                                  uriString, textDocuments)
       IN  /\ reviewTreeProvider' = st.provider
           /\ diagnosticCollection' = st.diagnostics
    /\ ev' = [op |-> "clear", uri |-> uriString, fired0 |-> reviewTreeProvider.fired]
    /\ UNCHANGED << editorVars, reviewVars, now, parsing >>

NextStore ==
    \/ \E uriString \in Docs, text \in StoreTexts : StoreUpdate(uriString, text)
    \/ \E uriString \in Docs : StoreClear(uriString)

SpecStore == InitStore /\ [][NextStore]_vars

----------------------------------------------------------------------------
\* Vocabulary of the properties.

\* get(uri): the list the store shows for a document, empty without an entry.
StoredItems(uriString) == childrenOf(reviewTreeProvider.reviewItemsByFile, uriString)

OrZero(n) == IF n = undefined THEN 0 ELSE n

\* The identity key of a finding: severity, message, line and column, a
\* missing line or column counted as 0.
IdentityKey(item) ==
    << item.severity, item.label.content, OrZero(item.lineNumber), OrZero(item.colNumber) >>

\* The findings the lines of a text denote, one per matching line, in line order.
RECURSIVE MatchedItems(_, _)
MatchedItems(lines, uriString) ==
    IF lines = <<>> THEN <<>>
    ELSE (IF severityMatches(Head(lines))
          THEN << lineEntry(Head(lines), uriString).item >> ELSE <<>>)
         \o MatchedItems(Tail(lines), uriString)

Findings(text, uriString) == MatchedItems(parserLines(text), uriString)

\* The place in F of the first finding with the given key.
FirstIndex(F, key) ==
    CHOOSE i \in 1..Len(F) :
        /\ IdentityKey(F[i]) = key
        /\ \A j \in 1..(i - 1) : IdentityKey(F[j]) # key

KeysOf(L) == {IdentityKey(L[i]) : i \in 1..Len(L)}

DistinctKeys(L) ==
    \A i, j \in 1..Len(L) : i # j => IdentityKey(L[i]) # IdentityKey(L[j])

\* L holds, for every key of F, the first finding of F with that key.
FirstSurvives(L, F) ==
    /\ KeysOf(L) = KeysOf(F)
    /\ \A i \in 1..Len(L) : L[i] = F[FirstIndex(F, IdentityKey(L[i]))]

HasPosition(item) == item.lineNumber # undefined

Tie(a, b) ==
    \/ ~HasPosition(a) /\ ~HasPosition(b)
    \/ HasPosition(a) /\ HasPosition(b) /\ a.lineNumber = b.lineNumber

SortedByLine(L) ==
    \A i, j \in 1..Len(L) :
        i < j => /\ HasPosition(L[j]) => HasPosition(L[i])
                 /\ HasPosition(L[i]) /\ HasPosition(L[j]) => L[i].lineNumber <= L[j].lineNumber

\* Findings of L that tie stand in the order their lines have in F.
TiesKeepOrder(L, F) ==
    \A i, j \in 1..Len(L) :
        i < j /\ Tie(L[i], L[j])
            => FirstIndex(F, IdentityKey(L[i])) < FirstIndex(F, IdentityKey(L[j]))

\* L is the deduplicated, sorted form of F.
DedupSortedForm(L, F) ==
    /\ DistinctKeys(L)
    /\ FirstSurvives(L, F)
    /\ SortedByLine(L)
    /\ TiesKeepOrder(L, F)

\* The sum of the lengths of the lists the store shows for the documents of S.
RECURSIVE TotalStored(_)
TotalStored(S) ==
    IF S = {} THEN 0
    ELSE LET d == CHOOSE x \in S : TRUE
         IN  Len(StoredItems(d)) + TotalStored(S \ {d})

----------------------------------------------------------------------------
\* Properties of the result store (SpecStore) and of the parser (SpecParse).

\* C1: after any sequence of update and clear calls the badge value equals the
\* sum of the lengths of the finding lists of the documents in the store, and
\* the badge is unset exactly when that sum is 0.
BadgeIsSumOfStoredLengths ==
    reviewTreeProvider.badge =
        IF TotalStored(Docs) > 0 THEN TotalStored(Docs) ELSE undefined

\* A clear that removed one entry and left findings of another document counted.
WitnessBadgeAfterClear ==
    /\ ev.op = "clear"
    /\ reviewTreeProvider.fired = ev.fired0 + 1
    /\ reviewTreeProvider.badge >= 1
    /\ StoredItems(ev.uri) = <<>>

\* C2: every update(uri, text) replaces the whole entry for uri (one entry,
\* holding exactly the items parsed from text) and fires exactly one
\* notification, whose listeners see the new entry and the new badge.
UpdateReplacesThenNotifiesOnce ==
    ev.op = "update" =>
        LET map == reviewTreeProvider.reviewItemsByFile
        IN  /\ Cardinality({i \in 1..Len(map) : map[i].uri = ev.uri}) = 1
            /\ map[mapIndex(map, ev.uri, 1)].items = _parseReviewItems(ev.text, ev.uri)
            /\ reviewTreeProvider.fired = ev.fired0 + 1
            /\ reviewTreeProvider.seen.nodes = getChildren(map)
            /\ reviewTreeProvider.seen.badge = reviewTreeProvider.badge

\* An update that replaced a populated entry while another document has one too.
WitnessUpdateOfPopulatedStore ==
    /\ ev.op = "update"
    /\ ev.fired0 >= 2
    /\ Len(reviewTreeProvider.reviewItemsByFile) = 2
    /\ Len(StoredItems(ev.uri)) >= 2

\* C3: clear(uri) without an entry for uri changes nothing of the provider and
\* fires nothing; with an entry it removes that entry only, keeps the others in
\* place, recomputes the badge and fires one notification.
ClearRemovesOnlyItsEntry ==
    [][ev'.op = "clear" =>
        LET map == reviewTreeProvider.reviewItemsByFile
            left == reviewTreeProvider'.reviewItemsByFile
        IN  IF \A i \in 1..Len(map) : map[i].uri # ev'.uri
            THEN reviewTreeProvider' = reviewTreeProvider
            ELSE /\ left = SelectSeq(map, LAMBDA e : e.uri # ev'.uri)
                 /\ Len(left) = Len(map) - 1
                 /\ reviewTreeProvider'.fired = reviewTreeProvider.fired + 1
                 /\ BadgeIsSumOfStoredLengths'
                 /\ reviewTreeProvider'.seen.nodes = getChildren(left)]_vars

\* A clear that removed an entry and left the other document's entry.
WitnessClearOfOneOfTwo ==
    /\ ev.op = "clear"
    /\ reviewTreeProvider.fired = ev.fired0 + 1
    /\ Len(reviewTreeProvider.reviewItemsByFile) = 1
    /\ reviewTreeProvider.reviewItemsByFile[1].uri # ev.uri
    /\ Len(reviewTreeProvider.reviewItemsByFile[1].items) >= 1

\* The payload holds two entries with the same severity, the same message
\* and no snippet.
TwoSameEntries(payload) ==
    /\ payload.isArray
    /\ Len(payload.reviews) = 2
    /\ payload.reviews[1].severity = payload.reviews[2].severity
    /\ payload.reviews[1].message = payload.reviews[2].message
    /\ payload.reviews[1].codeSnippet = <<>>
    /\ payload.reviews[2].codeSnippet = <<>>

\* C7: in every list the parser produces the identity keys are pairwise
\* distinct and, of the lines with one key, the first in line order is the one
\* that survives; two payload entries with the same severity token (in any
\* letter case), the same message and no snippet give exactly one finding.
\* Two such entries whose severity is no token of the enumeration give none.
ParsedKeysDistinctFirstSurvives ==
    parsing.stage = "stored" =>
        LET L == StoredItems(parsing.doc)
            F == Findings(parsing.text, parsing.doc)
        IN  /\ DistinctKeys(L)
            /\ FirstSurvives(L, F)
            /\ Len(L) = Cardinality(KeysOf(F))
            /\ (parsing.structured /\ TwoSameEntries(parsing.payload)) =>
                  Len(L) = IF toUpperCase(parsing.payload.reviews[1].severity)
                                \in SeverityTokens
                           THEN 1 ELSE 0

\* A text with two findings of one key that differ (one names line 0, the
\* other no line), of which the parser kept the first.
WitnessDuplicateKeyDropped ==
    /\ parsing.stage = "stored"
    /\ LET L == StoredItems(parsing.doc)
           F == Findings(parsing.text, parsing.doc)
       IN  /\ Len(L) < Len(F)
           /\ \E i, j \in 1..Len(F) :
                /\ i < j
                /\ IdentityKey(F[i]) = IdentityKey(F[j])
                /\ F[i] # F[j]

\* C8: every stored list is sorted ascending by line, the findings without a
\* position after all those with one, and findings that tie keep the order
\* their lines have in the response.
StoredListSortedStable ==
    parsing.stage = "stored" =>
        LET L == StoredItems(parsing.doc)
            F == Findings(parsing.text, parsing.doc)
        IN  /\ SortedByLine(L)
            /\ TiesKeepOrder(L, F)

\* A list of three whose order differs from the line order and that holds a tie.
WitnessSortedWithTie ==
    /\ parsing.stage = "stored"
    /\ LET L == StoredItems(parsing.doc)
           F == Findings(parsing.text, parsing.doc)
       IN  /\ Len(L) = 3
           /\ L # F
           /\ \E i \in 1..2 : Tie(L[i], L[i + 1]) /\ HasPosition(L[i])

\* C9: right after update(uri, text) the store shows for uri exactly the
\* deduplicated, sorted form of the findings of text, and right after
\* clear(uri) it shows the empty list, whatever it held before.
UpdateThenGetClearThenGet ==
    /\ ev.op = "update" =>
         DedupSortedForm(StoredItems(ev.uri), Findings(ev.text, ev.uri))
    /\ ev.op = "clear" => StoredItems(ev.uri) = <<>>

\* An update, on a store that was written before, of a text whose findings
\* hold a duplicate and stand out of order.
WitnessUpdateDedupedAndSorted ==
    /\ ev.op = "update"
    /\ ev.fired0 >= 1
    /\ LET L == StoredItems(ev.uri)
           F == Findings(ev.text, ev.uri)
       IN  /\ Len(L) >= 2
           /\ Len(L) < Len(F)
           /\ L[1] # F[1]

\* C10: a second update(uri, text) with the arguments of the update just made
\* leaves the mapping, the lists, the order of the entries and the badge as
\* they are and fires a notification of its own: two for the two calls.
RepeatedUpdateSameStateTwoNotifications ==
    [][(/\ ev'.op = "update"
        /\ ev'.again
        /\ ev'.fired0 = reviewTreeProvider.fired)
       => /\ reviewTreeProvider'.reviewItemsByFile = reviewTreeProvider.reviewItemsByFile
          /\ reviewTreeProvider'.badge = reviewTreeProvider.badge
          /\ reviewTreeProvider'.seen = reviewTreeProvider.seen
          /\ reviewTreeProvider'.fired = ev.fired0 + 2]_vars

\* A repeated update of a populated entry that is not the last of the map.
WitnessRepeatedUpdate ==
    /\ ev.op = "update"
    /\ ev.again
    /\ Len(reviewTreeProvider.reviewItemsByFile) = 2
    /\ reviewTreeProvider.reviewItemsByFile[1].uri = ev.uri
    /\ Len(StoredItems(ev.uri)) >= 2

----------------------------------------------------------------------------
\* The orchestration: activate's handlers, lintIfNeeded and lintDocument.

\* now - last < 30000
Cooldown == 30000

\* Step of the clock, and how many steps a run takes.
TickMs == 30000
MaxTicks == 1
\* Reviews are triggered while fewer notifications than this were fired.
ReviewBudget == 2
\* Most reviews waiting in the queue, and most awaiting the model at once.
MaxQueue == 1
MaxInFlight == 2

\* The responses of the model server.
Responses ==
    { [kind |-> "networkError"],
      [kind |-> "httpError"],
      [kind |-> "reviewCode",
       result |-> [isArray |-> TRUE,
                   reviews |-> << [severity |-> "WARNING", message |-> Words.n,
                                   codeSnippet |-> Snippets.none],
                                  [severity |-> "ERROR", message |-> Words.m,
                                   codeSnippet |-> Snippets.call] >>]] }

\* Whether the request failed: fetch rejected, or the status was no success.
Failed(response) == response.kind \in {"networkError", "httpError"}

\* A lintDocument execution awaiting the model.  via tells who called it: the
\* queue or the review command.  before is what the store and the diagnostics
\* held for the document when the execution began.
Task(doc, via, st) ==
    [uri |-> doc, via |-> via,
     before |-> [items |-> childrenOf(st.provider.reviewItemsByFile, doc),
                 diagnostics |-> st.diagnostics[doc]]]

\* The queue runs one task at a time: its slot is taken while a task it
\* started awaits the model.
SlotTaken == \E i \in 1..Len(inflight) : inflight[i].via = "queue"

\* A finished task of the queue is followed at once by the next waiting one,
\* before any other handler runs.
Draining == ~SlotTaken /\ queue # <<>>

Current == [provider |-> reviewTreeProvider, diagnostics |-> diagnosticCollection]

\* lintDocument up to its await: the document's reviews and diagnostics are
\* cleared, then the request is sent.
lintDocumentStart(st, doc, openDocs) ==
    LET cleared == clearFileReviews(st, doc, openDocs)
    IN  [cleared EXCEPT !.diagnostics[doc] = NoDiagnostics]

\* lintDocument leaving the document as it is when the request failed.
lintDocumentFinishSkippingFailure(st, doc, response, showInProblemsTab) ==
    IF Failed(response)
    THEN st
    ELSE [provider |-> update(st.provider, doc,
                              requestLLMReviewWithFunctionCalling(doc, response)),
          diagnostics |-> st.diagnostics]

\* lintDocument from the await on: the tree is updated with the text the
\* client returned and, with llmLint.showInProblemsTab, so are the diagnostics.
lintDocumentFinish(st, doc, response, showInProblemsTab) ==
    LET fullText == requestLLMReviewWithFunctionCalling(doc, response)
        updated == update(st.provider, doc, fullText)
    IN  [provider |-> updated,
         diagnostics |->
             IF showInProblemsTab
             THEN [st.diagnostics EXCEPT
                     ![doc] = [set |-> TRUE, items |-> updateDiagnostics(doc, fullText)]]
             ELSE st.diagnostics]

\* lintDocument begins for doc: the state after its synchronous part.
Begin(doc, via, openDocs) ==
    LET st == lintDocumentStart(Current, doc, openDocs)
    IN  /\ reviewTreeProvider' = st.provider
        /\ diagnosticCollection' = st.diagnostics
        /\ inflight' = Append(inflight, Task(doc, via, Current))

\* lastRunMap.get(uri) ?? 0
lastRun(doc) == IF lastRunMap[doc] = undefined THEN 0 ELSE lastRunMap[doc]

\* queue.add(() => lintDocument(doc)): with the slot free the task starts
\* within the call, else it waits.
queueAdd(doc, openDocs) ==
    IF SlotTaken
    THEN /\ queue' = Append(queue, doc)
         /\ UNCHANGED << reviewTreeProvider, diagnosticCollection, inflight >>
    ELSE /\ Begin(doc, "queue", openDocs)
         /\ UNCHANGED queue

\* lintIfNeeded without the cooldown test.
lintIfNeededNoCooldown(doc, openDocs) ==
    IF \/ isUntitled(doc)
       \/ ~isProgrammingLanguage(languageId(doc))
       \/ shouldExclude(doc)
       \/ doc \notin openDocs
    THEN UNCHANGED << reviewTreeProvider, diagnosticCollection, lastRunMap, queue, inflight >>
    ELSE /\ lastRunMap' = [lastRunMap EXCEPT ![doc] = now]
         /\ queueAdd(doc, openDocs)

\* lintIfNeeded(doc); openDocs are the documents of the visible editors.
lintIfNeeded(doc, openDocs) ==
    IF \/ isUntitled(doc)
       \/ ~isProgrammingLanguage(languageId(doc))
       \/ shouldExclude(doc)
       \/ doc \notin openDocs
       \/ now - lastRun(doc) < Cooldown
    THEN UNCHANGED << reviewTreeProvider, diagnosticCollection, lastRunMap, queue, inflight >>
    ELSE /\ lastRunMap' = [lastRunMap EXCEPT ![doc] = now]
         /\ queueAdd(doc, openDocs)

\* The documents the user opens: one of a programming language, one that is not.
Editors == {"a", "notes"}

\* The environment triggers reviews within the bounds of the model.
WithinBounds ==
    /\ reviewTreeProvider.fired < ReviewBudget
    /\ Len(queue) < MaxQueue
    /\ Len(inflight) < MaxInFlight

Since(t) == IF t = undefined THEN undefined ELSE now - t

\* What a step of an automatic trigger for doc logs: whether lintIfNeeded was
\* called, whether it accepted the review, and the last request before it.
LogTrigger(doc, called) ==
    LET accepted == queue' # queue \/ Len(inflight') > Len(inflight)
    IN  /\ ev' = [op |-> "trigger", uri |-> doc, called |-> called, accepted |-> accepted,
                  since |-> Since(requestLog[doc].at), last |-> requestLog[doc].via]
        /\ requestLog' = IF accepted
                         THEN [requestLog EXCEPT ![doc] = [at |-> now, via |-> "queue"]]
                         ELSE requestLog

\* onDidSaveTextDocument
OnDidSaveTextDocument(doc) ==
    /\ ~Draining
    /\ WithinBounds
    /\ doc \in textDocuments
    /\ IF autoReviewEnabled
       THEN lintIfNeeded(doc, textDocuments)
       ELSE UNCHANGED << reviewTreeProvider, diagnosticCollection, lastRunMap, queue, inflight >>
    /\ LogTrigger(doc, autoReviewEnabled)
    /\ UNCHANGED << editorVars, startupTimer, now, parsing >>

\* onDidChangeActiveTextEditor: another editor, or none, becomes the active one.
OnDidChangeActiveTextEditor(editor) ==
    /\ ~Draining
    /\ WithinBounds
    /\ editor # activeTextEditor
    /\ activeTextEditor' = editor
    /\ textDocuments' = IF editor = NoDoc THEN textDocuments ELSE textDocuments \cup {editor}
    /\ IF editor # NoDoc /\ autoReviewOnOpenEnabled
       THEN lintIfNeeded(editor, textDocuments')
       ELSE UNCHANGED << reviewTreeProvider, diagnosticCollection, lastRunMap, queue, inflight >>
    /\ IF editor = NoDoc
       THEN ev' = NoEvent /\ UNCHANGED requestLog
       ELSE LogTrigger(editor, autoReviewOnOpenEnabled)
    /\ UNCHANGED << autoReviewEnabled, autoReviewOnOpenEnabled, startupTimer, now, parsing >>

\* The callback of setTimeout(() => lintIfNeeded(doc), 2000).
StartupTimerFires ==
    /\ ~Draining
    /\ WithinBounds
    /\ startupTimer # NoDoc
    /\ startupTimer' = NoDoc
    /\ lintIfNeeded(startupTimer, textDocuments)
    /\ LogTrigger(startupTimer, TRUE)
    /\ UNCHANGED << editorVars, now, parsing >>

\* The command llm-reviewer.reviewCurrentFile.
ReviewCurrentFile ==
    /\ ~Draining
    /\ WithinBounds
    /\ LET doc == activeTextEditor
       IN  IF \/ doc = NoDoc
              \/ isUntitled(doc)
              \/ ~isProgrammingLanguage(languageId(doc))
              \/ shouldExclude(doc)
           THEN /\ UNCHANGED << reviewTreeProvider, diagnosticCollection, lastRunMap,
                                inflight, requestLog >>
                /\ ev' = NoEvent
           ELSE /\ lastRunMap' = [lastRunMap EXCEPT ![doc] = 0]
                /\ Begin(doc, "command", textDocuments)
                /\ ev' = [op |-> "command", uri |-> doc, accepted |-> TRUE,
                          since |-> Since(requestLog[doc].at), last |-> requestLog[doc].via]
                /\ requestLog' = [requestLog EXCEPT ![doc] = [at |-> now, via |-> "command"]]
    /\ UNCHANGED << queue, editorVars, startupTimer, now, parsing >>

\* The model request of an execution returns: the rest of lintDocument runs.
RequestReturns(i, response, showInProblemsTab) ==
    /\ ~Draining
    /\ i \in 1..Len(inflight)
    /\ LET task == inflight[i]
           st == lintDocumentFinish(Current, task.uri, response, showInProblemsTab)
       IN  /\ reviewTreeProvider' = st.provider
           /\ diagnosticCollection' = st.diagnostics
           /\ ev' = [op |-> "return", uri |-> task.uri, failed |-> Failed(response),
                     show |-> showInProblemsTab, before |-> task.before]
    /\ inflight' = SubSeq(inflight, 1, i - 1) \o SubSeq(inflight, i + 1, Len(inflight))
    /\ UNCHANGED << lastRunMap, queue, requestLog, editorVars, startupTimer, now, parsing >>

\* The queue forgetting its next waiting task instead of starting it.
QueueDropsNext ==
    /\ Draining
    /\ queue' = Tail(queue)
    /\ ev' = NoEvent
    /\ UNCHANGED << reviewTreeProvider, diagnosticCollection, inflight, lastRunMap,
                    requestLog, editorVars, startupTimer, now, parsing >>

\* The queue starts its next waiting task.
QueueStartsNext ==
    /\ Draining
    /\ queue' = Tail(queue)
    /\ Begin(Head(queue), "queue", textDocuments)
    /\ ev' = NoEvent
    /\ UNCHANGED << lastRunMap, requestLog, editorVars, startupTimer, now, parsing >>

\* onDidCloseTextDocument: the document has left workspace.textDocuments when
\* the handler runs.
OnDidCloseTextDocument(doc) ==
    /\ ~Draining
    /\ doc \in textDocuments
    /\ textDocuments' = textDocuments \ {doc}
    /\ activeTextEditor' = IF activeTextEditor = doc THEN NoDoc ELSE activeTextEditor
    /\ LET st == clearFileReviews(Current, doc, textDocuments')
       IN  /\ reviewTreeProvider' = st.provider
           /\ diagnosticCollection' = st.diagnostics
    /\ ev' = NoEvent
    /\ UNCHANGED << autoReviewEnabled, autoReviewOnOpenEnabled, reviewVars, now, parsing >>

\* The command llm-reviewer.toggleAutoReview.
ToggleAutoReview ==
    /\ ~Draining
    /\ autoReviewEnabled' = ~autoReviewEnabled
    /\ ev' = NoEvent
    /\ UNCHANGED << reviewTreeProvider, diagnosticCollection, textDocuments, activeTextEditor,
                    autoReviewOnOpenEnabled, reviewVars, now, parsing >>

\* The command llm-reviewer.toggleAutoReviewOnOpen.
ToggleAutoReviewOnOpen ==
    /\ ~Draining
    /\ autoReviewOnOpenEnabled' = ~autoReviewOnOpenEnabled
    /\ ev' = NoEvent
    /\ UNCHANGED << reviewTreeProvider, diagnosticCollection, textDocuments, activeTextEditor,
                    autoReviewEnabled, reviewVars, now, parsing >>

\* Time passes.
Tick ==
    /\ ~Draining
    /\ now < StartTime + MaxTicks * TickMs
    /\ now' = now + TickMs
    /\ ev' = NoEvent
    /\ UNCHANGED << reviewTreeProvider, diagnosticCollection, editorVars, reviewVars, parsing >>

\* activate() has run: with an active editor and autoReviewOnOpen the startup
\* timer is pending for its document.
Init ==
    /\ InitExtension
    /\ parsing = NotParsing
    /\ activeTextEditor \in Editors \cup {NoDoc}
    /\ textDocuments = IF activeTextEditor = NoDoc THEN {} ELSE {activeTextEditor}
    /\ autoReviewOnOpenEnabled \in BOOLEAN
    /\ startupTimer = IF autoReviewOnOpenEnabled THEN activeTextEditor ELSE NoDoc

Next ==
    \/ \E doc \in Editors : OnDidSaveTextDocument(doc)
    \/ \E editor \in Editors \cup {NoDoc} : OnDidChangeActiveTextEditor(editor)
    \/ StartupTimerFires
    \/ ReviewCurrentFile
    \/ \E i \in 1..MaxInFlight, response \in Responses, show \in BOOLEAN :
         RequestReturns(i, response, show)
    \/ QueueStartsNext
    \/ \E doc \in Editors : OnDidCloseTextDocument(doc)
    \/ ToggleAutoReview
    \/ ToggleAutoReviewOnOpen
    \/ Tick

Spec == Init /\ [][Next]_vars

----------------------------------------------------------------------------
\* Properties of the orchestration.

Eligible(doc) ==
    ~isUntitled(doc) /\ isProgrammingLanguage(languageId(doc)) /\ ~shouldExclude(doc)

\* C4, as stated: at most one execution of lintDocument awaits the model at
\* any time, whichever of the save event, the editor change, the startup timer
\* and the review command started it.
AtMostOneReviewInFlight == Len(inflight) <= 1

\* C5, as stated: after a review whose model request failed, the store's entry
\* and the diagnostics of the document are what they were when the review began.
FailedReviewLeavesDocumentUntouched ==
    (ev.op = "return" /\ ev.failed) =>
        /\ childrenOf(reviewTreeProvider.reviewItemsByFile, ev.uri) = ev.before.items
        /\ diagnosticCollection[ev.uri].items = ev.before.diagnostics.items

\* C5, amended: after a review whose model request failed, the store holds an
\* entry for the document and the entry is the empty list, and with
\* showInProblemsTab the document's diagnostics are set to the empty list.
FailedReviewLeavesEmptyEntry ==
    (ev.op = "return" /\ ev.failed) =>
        /\ mapHas(reviewTreeProvider.reviewItemsByFile, ev.uri)
        /\ childrenOf(reviewTreeProvider.reviewItemsByFile, ev.uri) = <<>>
        /\ ev.show => diagnosticCollection[ev.uri] = [set |-> TRUE, items |-> <<>>]

\* A failed review of a document that had findings and diagnostics.
WitnessFailedReviewOfReviewedDocument ==
    /\ ev.op = "return"
    /\ ev.failed
    /\ ev.show
    /\ ev.before.items # <<>>
    /\ ev.before.diagnostics.items # <<>>

\* C6, as stated: a review of a document is never requested within the
\* cooldown of the document's previous request.
NoRequestWithinCooldown ==
    (ev.op \in {"trigger", "command"} /\ ev.accepted /\ ev.since # undefined) =>
        ev.since >= Cooldown

\* C6, amended: when the last request for a document came from an automatic
\* trigger, a further automatic trigger is accepted exactly when the document
\* passes the filters, is visible and the cooldown has passed since that
\* request; after the review command, or with no request before, it is
\* accepted whatever the time; the review command is never skipped and resets
\* the cooldown.
CooldownBetweenAutomaticReviews ==
    /\ (ev.op = "trigger" /\ ev.called /\ ev.last = "queue") =>
          (ev.accepted <=> /\ Eligible(ev.uri)
                           /\ ev.uri \in textDocuments
                           /\ ev.since >= Cooldown)
    /\ (ev.op = "trigger" /\ ev.called /\ ev.last # "queue") =>
          (ev.accepted <=> Eligible(ev.uri) /\ ev.uri \in textDocuments)
    /\ (ev.op = "trigger" /\ ~ev.called) => ~ev.accepted
    /\ (ev.op = "command") => (ev.accepted /\ lastRunMap[ev.uri] = 0)

\* A trigger skipped inside the cooldown of an earlier automatic review.
WitnessTriggerSkippedWithinCooldown ==
    /\ ev.op = "trigger"
    /\ ev.called
    /\ ev.last = "queue"
    /\ ev.uri \in textDocuments
    /\ ev.since < Cooldown
    /\ ~ev.accepted

----------------------------------------------------------------------------
\* Properties of positions, severities and diagnostics.

\* The lines of a text the parser's pattern matches, in line order: line i
\* is the one Findings builds its i-th finding from.
MatchedLines(text) == SelectSeq(parserLines(text), severityMatches)

\* The line of the text the stored finding was built from.
SourceLine(item, text, uriString) ==
    MatchedLines(text)[FirstIndex(Findings(text, uriString), IdentityKey(item))]

\* C11: a finding built from a line with a message and the suffix
\* [Ln N, Col C], N >= 1, keeps N and C as written, points to the zero-based
\* line N - 1 and the column C (0 without Col), and its message is the line's
\* message without the suffix; a finding built from a line without the
\* suffix has no line, no column and no position to point to.
InlinePositionIsZeroBased ==
    parsing.stage = "stored" =>
        LET L == StoredItems(parsing.doc)
        IN  \A k \in 1..Len(L) :
              LET line == SourceLine(L[k], parsing.text, parsing.doc)
              IN  /\ (line.msg # <<>> /\ line.ln # undefined /\ line.ln >= 1) =>
                        /\ L[k].lineNumber = line.ln
                        /\ L[k].colNumber = line.col
                        /\ L[k].command.set
                        /\ L[k].command.line = line.ln - 1
                        /\ L[k].command.character = OrZero(line.col)
                        /\ L[k].label.content = line.msg
                  /\ (line.msg # <<>> /\ line.ln = undefined) =>
                        /\ L[k].lineNumber = undefined
                        /\ L[k].colNumber = undefined
                        /\ ~L[k].command.set
                        /\ L[k].label.content = line.msg

\* The text "[ERROR] n [Ln 12, Col 4]" / "[HINT]: n" stored as an Error
\* pointing to line 11, column 4 and a Hint without a position.
WitnessErrorAtLine11AndHintNowhere ==
    /\ parsing.stage = "stored"
    /\ ~parsing.structured
    /\ LET L == StoredItems(parsing.doc)
       IN  /\ Len(L) = 2
           /\ L[1].severity = Severity.Error
           /\ L[1].command.set
           /\ L[1].command.line = 11
           /\ L[1].command.character = 4
           /\ L[2].severity = Severity.Hint
           /\ ~L[2].command.set

\* C12, as stated: every entry of a structured payload whose severity is none
\* of ERROR, WARNING, INFO, HINT gives a finding of severity Info with the
\* entry's message, and the other entries give their findings all the same.
UnrecognizedSeverityDefaultsToInfo ==
    (parsing.stage = "stored" /\ parsing.structured /\ parsing.payload.isArray) =>
        LET L == StoredItems(parsing.doc)
            reviews == parsing.payload.reviews
        IN  \A i \in 1..Len(reviews) :
              \E k \in 1..Len(L) :
                /\ L[k].label.content = reviews[i].message
                /\ L[k].severity =
                     IF toUpperCase(reviews[i].severity) \in SeverityTokens
                     THEN severityOf(toUpperCase(reviews[i].severity))
                     ELSE Severity.Info

\* The diagnostics published for a document.
Diagnostics(doc) == diagnosticCollection[doc].items

\* The vscode.DiagnosticSeverity that shows a Severity.
ShownAs(severity) ==
    CASE severity = Severity.Error -> "Error"
      [] severity = Severity.Warning -> "Warning"
      [] severity = Severity.Info -> "Information"
      [] severity = Severity.Hint -> "Hint"

\* The diagnostic reports the finding: its message and severity, at the start
\* of the document when the finding has no position.
Reports(diagnostic, item) ==
    /\ diagnostic.message = item.label.content
    /\ diagnostic.severity = ShownAs(item.severity)
    /\ ~HasPosition(item) => diagnostic.line = 0 /\ diagnostic.startCharacter = 0

\* The lines of a text the parser builds findings from, as they stand in the
\* text (bullet and all), in line order.
WrittenLines(text) ==
    SelectSeq(filterLines(stripThink(text)), LAMBDA l : severityMatches(stripBullet(l)))

\* The lines of a text that start with a severity tag and have a text after it.
TaggedLines(text) == SelectSeq(text, severityMatches)

----------------------------------------------------------------------------
\* SpecResolve: findPositionByCodeSnippet on every snippet cut out of a
\* document, as it stands there or with its blank runs rewritten.

\* The blank runs a rewritten snippet has in place of the document's.
BlankRuns == { << " " >>, << " ", " " >>, << "\n" >>, << "\t", " " >> }

\* str with every maximal run of blanks replaced by run.
RECURSIVE respace(_, _)
respace(str, run) ==
    IF str = <<>> THEN <<>>
    ELSE IF isSpace(Head(str)) THEN run \o respace(trimStart(str), run)
    ELSE << Head(str) >> \o respace(Tail(str), run)

\* The snippets for the characters from..to of the document's text.
SnippetsOf(doc, from, to) ==
    LET taken == SubSeq(getText(doc), from, to)
    IN  {taken} \cup {respace(taken, run) : run \in BlankRuns}

InitResolve ==
    /\ InitExtension
    /\ NoEditor
    /\ \E d \in Docs :
         \E from \in 1..Len(getText(d)) :
           \E to \in from..Len(getText(d)) :
             \E snippet \in SnippetsOf(d, from, to) :
               parsing = [stage |-> "snippet", doc |-> d, offset |-> from - 1,
                          taken |-> SubSeq(getText(d), from, to),
                          snippet |-> snippet, position |-> NoPosition]

Resolve ==
    /\ parsing.stage = "snippet"
    /\ parsing' = [parsing EXCEPT
                     !.stage = "resolved",
                     !.position = findPositionByCodeSnippet(parsing.snippet, parsing.doc)]
    /\ UNCHANGED << reviewTreeProvider, diagnosticCollection, editorVars, reviewVars, now, ev >>

NextResolve == Resolve

SpecResolve == InitResolve /\ [][NextResolve]_vars

\* The snippet, blanks and all, stands in the document from the offset on,
\* a run of blanks of the one standing for a run of blanks of the other.
StandsAt(snippet, doc, offset) == matchesAt(snippet, getText(doc), offset + 1)

----------------------------------------------------------------------------
\* Properties of closed documents.

\* Every trigger of a review acts on a document of textDocuments: a save is of
\* an open document, an editor change opens its document, the command reviews
\* the active editor's document and lintIfNeeded skips a document that is not
\* shown.  So a document outside textDocuments was closed, or never opened,
\* and no review of it was triggered since.

\* C15, as stated: a closed document for which no review was triggered since
\* it was closed has no entry in the store, also when a review of it was
\* waiting in the queue or awaiting the model when it was closed.
ClosedDocumentHasNoEntry ==
    \A doc \in Editors :
        doc \notin textDocuments =>
            ~mapHas(reviewTreeProvider.reviewItemsByFile, doc)

----------------------------------------------------------------------------
\* Properties of the two views of a review.

\* The diagnostic and the finding show the same severity and message.
SameFinding(diagnostic, item) ==
    /\ diagnostic.message = item.label.content
    /\ diagnostic.severity = ShownAs(item.severity)

\* C16, as stated: after a review with the problems tab on, the diagnostics
\* of the document and the findings stored for it are as many, and every
\* severity and message stands as often among the ones as among the others.
DiagnosticsAgreeWithFindings ==
    (parsing.stage = "stored" /\ parsing.show) =>
        LET L == StoredItems(parsing.doc)
            D == Diagnostics(parsing.doc)
        IN  /\ Len(D) = Len(L)
            /\ \A k \in 1..Len(L) :
                 Cardinality({j \in 1..Len(D) : SameFinding(D[j], L[k])})
                   = Cardinality({i \in 1..Len(L) :
                                    /\ L[i].label.content = L[k].label.content
                                    /\ L[i].severity = L[k].severity})

----------------------------------------------------------------------------
\* SpecLive: the queue at work on one document, with every model request
\* returning and the queue going on to its next task.  The document is open in
\* the active editor; it is saved, the startup timer fires, time passes, the
\* document is closed.  The review command is left out: its executions do not
\* pass through the queue.

InitLive == Init /\ activeTextEditor = "a"

\* The request of a lintDocument execution the queue started returns.
QueuedRequestReturns ==
    \E i \in 1..MaxInFlight, response \in Responses, show \in BOOLEAN :
        /\ i \in 1..Len(inflight)
        /\ inflight[i].via = "queue"
        /\ RequestReturns(i, response, show)

NextLive ==
    \/ OnDidSaveTextDocument("a")
    \/ StartupTimerFires
    \/ QueuedRequestReturns
    \/ QueueStartsNext
    \/ OnDidCloseTextDocument("a")
    \/ Tick

\* fetch settles, with a response or with a rejection the client catches, and
\* p-queue starts its next task when the running one has settled.
SpecLive ==
    /\ InitLive
    /\ [][NextLive]_vars
    /\ WF_vars(QueuedRequestReturns)
    /\ WF_vars(QueueStartsNext)

\* The review of doc waits in the queue.
Waiting(doc) == \E k \in 1..Len(queue) : queue[k] = doc

\* The review of doc the queue started awaits the model.
Running(doc) ==
    \E i \in 1..Len(inflight) : inflight[i].uri = doc /\ inflight[i].via = "queue"

\* The request of a review of doc has just returned and the queue's slot is
\* free; the store holds for doc the findings of the text the client made of
\* some response that failed or not as the returned one did.
Finished(doc) ==
    /\ ~SlotTaken
    /\ ev.op = "return"
    /\ ev.uri = doc
    /\ mapHas(reviewTreeProvider.reviewItemsByFile, doc)
    /\ \E response \in Responses :
         /\ Failed(response) = ev.failed
         /\ StoredItems(doc) =
              _parseReviewItems(requestLLMReviewWithFunctionCalling(doc, response), doc)

\* C17: with every model request returning, a review waiting in the queue is
\* started, and a review the queue started finishes, whatever the response
\* (a failure included), with the queue's slot free again and the store
\* holding the findings of the response for its document.
QueuedReviewRunsAndFinishes ==
    \A doc \in Editors :
        /\ Waiting(doc) ~> Running(doc)
        /\ Running(doc) ~> Finished(doc)

\* A failed request has just returned while a review waits in the queue
\* behind it.
WitnessFailedRequestWithReviewWaiting ==
    /\ ev.op = "return"
    /\ ev.failed
    /\ ~SlotTaken
    /\ queue # <<>>

====
